---- MODULE Spec2Model ----
(***************************************************************************)
(* Header Counter plugin (src/main.ts).  The source holds two builds of    *)
(* the plugin: the build with the "Show icon in sidebar" toggle (lines     *)
(* 1-289, variant 1) and the build without it (lines 291-514, variant 2).  *)
(* Texts are sequences of one-character strings; numbers returned by       *)
(* parseInt are records so that NaN is a value of its own.                 *)
(***************************************************************************)
EXTENDS Integers, Sequences, FiniteSets, TLC

VARIABLES variant, loaded, data, settings, tabOpen, toggleValue, icons,
          view, content, modal, events, clipboard, op, first

vars == <<variant, loaded, data, settings, tabOpen, toggleValue, icons,
          view, content, modal, events, clipboard, op, first>>

(***************************************************************************)
(* Bounds                                                                  *)
(***************************************************************************)
MaxTextLen == 5

MaxInputLen == 2

MaxNumberLen == 3

(***************************************************************************)
(* Characters and strings                                                  *)
(***************************************************************************)
\* ECMAScript LineTerminator code points used by the documents of the model
LineTerminators == {"\n", "\r"}

\* ECMAScript \s: white space and line terminators
WhiteSpace == {" ", "\t"} \cup LineTerminators

Digits == <<"0", "1", "2", "3", "4", "5", "6", "7", "8", "9">>

DigitChars == {Digits[i] : i \in 1..10}

DigitValue(c) == (CHOOSE i \in 1..10 : Digits[i] = c) - 1

\* all sequences over alphabet of length at most n
SeqsUpTo(alphabet, n) == UNION {[1..k -> alphabet] : k \in 0..n}

(***************************************************************************)
(* Numbers: the result of parseInt is an integer or NaN                    *)
(***************************************************************************)
NaN == [nan |-> TRUE, val |-> 0]

Num(n) == [nan |-> FALSE, val |-> n]

\* a >= n and a <= n on numbers: every comparison with NaN is false
GE(a, n) == ~a.nan /\ a.val >= n

LE(a, n) == ~a.nan /\ a.val <= n

RECURSIVE skipWhiteSpace(_, _)
\* first index at or after i of s that holds no white space (Len(s)+1 if none)
skipWhiteSpace(s, i) ==
    IF i <= Len(s) /\ s[i] \in WhiteSpace THEN skipWhiteSpace(s, i + 1) ELSE i

RECURSIVE parseDigits(_, _, _)
\* value of the longest run of decimal digits of s that starts at i, after acc
parseDigits(s, i, acc) ==
    IF i <= Len(s) /\ s[i] \in DigitChars
    THEN parseDigits(s, i + 1, 10 * acc + DigitValue(s[i]))
    ELSE acc

\* parseInt(s) with no radix, on strings without a 0x prefix: skip leading
\* white space, take an optional sign, then the longest prefix of decimal
\* digits; NaN when that prefix is empty.  Whatever follows is ignored.
parseInt(s) ==
    LET i == skipWhiteSpace(s, 1)
        signed == i <= Len(s) /\ s[i] \in {"-", "+"}
        j == IF signed THEN i + 1 ELSE i
    IN IF j <= Len(s) /\ s[j] \in DigitChars
       THEN Num((IF signed /\ s[i] = "-" THEN -1 ELSE 1) * parseDigits(s, j, 0))
       ELSE NaN

RECURSIVE natToString(_)
natToString(n) ==
    IF n < 10 THEN <<Digits[n + 1]>>
    ELSE natToString(n \div 10) \o <<Digits[(n % 10) + 1]>>

\* Number.prototype.toString() of an integer or NaN
toString(a) ==
    IF a.nan THEN <<"N", "a", "N">>
    ELSE IF a.val < 0 THEN <<"-">> \o natToString(-a.val)
    ELSE natToString(a.val)

(***************************************************************************)
(* The regular expression  new RegExp(`^#{${level}}\\s`, "gm")             *)
(***************************************************************************)
\* ^ under the m flag: at the start of the input or right after a terminator
lineStart(text, i) == i = 1 \/ text[i - 1] \in LineTerminators

\* the pattern ^#{level}[^#]: any character but '#' after the marks
matchAtNotHash(text, level, i) ==
    /\ lineStart(text, i)
    /\ i + level <= Len(text)
    /\ \A k \in 0..(level - 1) : text[i + k] = "#"
    /\ text[i + level] # "#"

\* the pattern ^#{level}\s matches at index i of text
matchAt(text, level, i) ==
    /\ lineStart(text, i)
    /\ i + level <= Len(text)
    /\ \A k \in 0..(level - 1) : text[i + k] = "#"
    /\ text[i + level] \in WhiteSpace

RECURSIVE matchFrom(_, _, _)
\* String.prototype.match with the g flag: the successive matches, each search
\* resuming at the end of the previous match (lastIndex), as matched strings
matchFrom(text, level, i) ==
    IF i > Len(text) THEN <<>>
    ELSE IF matchAt(text, level, i)
         THEN <<SubSeq(text, i, i + level)>> \o matchFrom(text, level, i + level + 1)
         ELSE matchFrom(text, level, i + 1)

\* content.match(headerRegex): the matches, or null (modelled as <<>>)
match(text, level) == matchFrom(text, level, 1)

\* const count = matches ? matches.length : 0
matchCount(text, level) ==
    LET matches == match(text, level)
    IN IF matches # <<>> THEN Len(matches) ELSE 0


RECURSIVE summaryLoopShort(_, _, _)
\* the loop with the condition level < 6
summaryLoopShort(text, level, headerSummary) ==
    IF level < 6
    THEN LET matches == match(text, level)
             entry == <<"h" \o ToString(level),
                        IF matches # <<>> THEN Len(matches) ELSE 0>>
         IN summaryLoopShort(text, level + 1, Append(headerSummary, entry))
    ELSE headerSummary

\* the loop of computeHeaderSummary from `level` on: headerSummary[`h${level}`]
\* is set for level, level+1, ..., 6; the object is the sequence of its
\* <<key, value>> entries in insertion order (the keys are distinct)
RECURSIVE summaryLoop(_, _, _)
summaryLoop(text, level, headerSummary) ==
    IF level <= 6
    THEN LET matches == match(text, level)
             entry == <<"h" \o ToString(level),
                        IF matches # <<>> THEN Len(matches) ELSE 0>>
         IN summaryLoop(text, level + 1, Append(headerSummary, entry))
    ELSE headerSummary

headerSummaryOf(text) == summaryLoop(text, 1, <<>>)

RECURSIVE stringifyEntries(_, _)
stringifyEntries(obj, i) ==
    IF i > Len(obj) THEN ""
    ELSE (IF i > 1 THEN "," ELSE "")
         \o "\"" \o obj[i][1] \o "\":" \o ToString(obj[i][2])
         \o stringifyEntries(obj, i + 1)

\* JSON.stringify of an object with string keys and number values
JSONstringify(obj) == "{" \o stringifyEntries(obj, 1) \o "}"

(***************************************************************************)
(* Settings                                                                *)
(***************************************************************************)
\* no stored data: loadData() resolves to null
NoData == <<>>

DEFAULT_SETTINGS ==
    IF variant = 1
    THEN [defaultLevel |-> <<"4">>, showRibbonIcon |-> TRUE]
    ELSE [defaultLevel |-> <<"4">>]

\* Object.assign({}, defaults, stored)
assign(defaults, stored) ==
    [k \in DOMAIN defaults \cup DOMAIN stored |->
        IF k \in DOMAIN stored THEN stored[k] ELSE defaults[k]]

LevelStrings == {<<Digits[n + 1]>> : n \in 1..6}

\* what saveData can have written in an earlier session of either build
StoredData(v) ==
    {[defaultLevel |-> l] : l \in LevelStrings}
    \cup (IF v = 1
          THEN {[defaultLevel |-> l, showRibbonIcon |-> b] :
                    l \in LevelStrings, b \in BOOLEAN}
          ELSE {})

(***************************************************************************)
(* Notices and other effects of a handler, in the order they happen        *)
(***************************************************************************)
Notice(message) == [type |-> "Notice", message |-> message]

NotMarkdownNotice == Notice("Active view is not a Markdown view.")

CountNotice(headerLevel, count) ==
    Notice("Number of level " \o ToString(headerLevel) \o " headers: "
           \o ToString(count))

SummaryPrefix == IF variant = 1 THEN "Header Summary: " ELSE "Header summary: "

CopiedNotice == Notice("Copied to clipboard!")

InvalidLevelNotice == Notice("Please enter a valid header level (1-6).")

InvalidSettingNotice == Notice("Please enter a valid number between 1 and 6.")

\* this.callback(headerLevel)
Callback(headerLevel) == [type |-> "callback", headerLevel |-> headerLevel]

\* navigator.clipboard.writeText(text); ok: the platform allowed the write
WriteText(text, ok) == [type |-> "writeText", text |-> text, ok |-> ok]

\* this.saveData(this.settings)
SaveData == [type |-> "saveData"]

\* reading .editor of a null view: the async method rejects, nobody catches
TypeError == [type |-> "TypeError"]

\* the handler that ran last, with its input and whether a Markdown view was
\* there for it
Op(name, value, v) == [name |-> name, value |-> value, view |-> v]

NoFirst == [kind |-> "none", level |-> 0, message |-> ""]

ClosedModal == [open |-> FALSE, defaultHeaderLevel |-> NaN, view |-> FALSE]


(***************************************************************************)
(* Inputs                                                                  *)
(***************************************************************************)
DocChars == {"#", " ", "\n", "a"}

\* "# A\n## B\n### C\n", "# A\n# B\n", "#NoSpace\n", "# A\n## B\n## C\n",
\* "####### Foo", and lines ended by \r\n, a tab after the marks, a bare "#"
ScenarioTexts ==
    { <<"#", " ", "A", "\n", "#", "#", " ", "B", "\n", "#", "#", "#", " ", "C", "\n">>,
      <<"#", " ", "A", "\n", "#", " ", "B", "\n">>,
      <<"#", "N", "o", "S", "p", "a", "c", "e", "\n">>,
      <<"#", " ", "A", "\n", "#", "#", " ", "B", "\n", "#", "#", " ", "C", "\n">>,
      <<"#", "#", "#", "#", "#", "#", "#", " ", "F", "o", "o">>,
      <<"#", "#", "#", "#", "#", "#", " ", "F", "\n", "#", "#", "#", "#", "#", " ", "G">>,
      <<"#", "#", "#", "#", "\t", "D", "\r", "\n", "#", "\r", "\n", "#", "#", "#", "#">> }

\* the documents of the scanning specification
Texts == SeqsUpTo(DocChars, MaxTextLen) \cup ScenarioTexts

\* the documents of the plugin specifications
Docs == { <<>>,
          <<"#", " ", "A", "\n", "#", "#", " ", "B", "\n", "#", "#", " ", "C", "\n">>,
          <<"#", "#", "#", "#", "#", "#", "#", " ", "F", "\n", "#", "\n", "#", "a">> }

InputChars == {"0", "1", "6", "7", "-", ".", "a", " "}

\* what can be typed into the settings text field
TextInputs == SeqsUpTo(InputChars, MaxInputLen)

\* the value of an <input type="number">: a valid floating-point number
\* (an optional "-", then digits, or digits "." digits, or "." digits), and
\* the empty string for anything else that was typed
validFloat(s) ==
    LET b == IF s # <<>> /\ s[1] = "-" THEN Tail(s) ELSE s
    IN /\ b # <<>>
       /\ \A i \in 1..Len(b) : b[i] \in DigitChars \cup {"."}
       /\ Cardinality({i \in 1..Len(b) : b[i] = "."}) <= 1
       /\ b[Len(b)] # "."

NumberInputs ==
    {s \in SeqsUpTo((DigitChars \cap InputChars) \cup {"-", "."}, MaxNumberLen) :
        s = <<>> \/ validFloat(s)}

\* a few inputs for the specification of the whole plugin
FewInputs == {<<>>, <<"0">>, <<"1">>, <<"6">>, <<"7">>, <<"a">>, <<"1", "a">>,
              <<"6", ".", "1">>, <<"-", "1">>}

(***************************************************************************)
(* countHeaders and computeHeaderSummary                                   *)
(***************************************************************************)
\* countHeaders building its pattern from the default level of the settings
countHeaders1Default(headerLevel) ==
    IF ~view THEN <<NotMarkdownNotice>>
    ELSE <<CountNotice(headerLevel,
                       matchCount(content, parseInt(settings.defaultLevel).val))>>

\* countHeaders(headerLevel) of variant 1 (lines 95-111)
countHeaders1(headerLevel) ==
    IF ~view THEN <<NotMarkdownNotice>>
    ELSE <<CountNotice(headerLevel, matchCount(content, headerLevel))>>

\* countHeaders(view, headerLevel) of variant 2 (lines 387-396); v: the view
\* argument is a MarkdownView and not null
countHeaders2(v, headerLevel) ==
    IF ~v THEN <<TypeError>>
    ELSE <<CountNotice(headerLevel, matchCount(content, headerLevel))>>

\* the summary writing String(headerSummary) to the clipboard
summaryEffectsObjectString(text, ok) ==
    LET headerSummary == headerSummaryOf(text)
    IN << Notice(SummaryPrefix \o JSONstringify(headerSummary)),
          CopiedNotice,
          WriteText("[object Object]", ok) >>

\* the effects of the summary when a view is there: two notices, then the write
summaryEffects(text, ok) ==
    LET headerSummary == headerSummaryOf(text)
    IN << Notice(SummaryPrefix \o JSONstringify(headerSummary)),
          CopiedNotice,
          WriteText(JSONstringify(headerSummary), ok) >>

\* computeHeaderSummary() of variant 1 (lines 113-135)
computeHeaderSummary1(ok) ==
    IF ~view THEN <<NotMarkdownNotice>> ELSE summaryEffects(content, ok)

\* computeHeaderSummary(view) of variant 2 (lines 398-413)
computeHeaderSummary2(v, ok) ==
    IF ~v THEN <<TypeError>> ELSE summaryEffects(content, ok)

\* the first count or summary reported for the document, kept for comparison
remember(evs, headerLevel) ==
    IF first.kind # "none" \/ evs = <<>> THEN first
    ELSE LET e == evs[Len(evs)]
         IN IF e.type = "writeText"
            THEN [kind |-> "summary", level |-> 0, message |-> e.text]
            ELSE IF e.type = "Notice" /\ e # NotMarkdownNotice
            THEN [kind |-> "count", level |-> headerLevel, message |-> e.message]
            ELSE first


(***************************************************************************)
(* Validation                                                              *)
(***************************************************************************)
\* if (headerLevel >= 1 && headerLevel <= 6) in handleCount
handleCountValid(headerLevel) == GE(headerLevel, 1) /\ LE(headerLevel, 6)

\* the check with the lower bound 0
onChangeValidFromZero(level) == GE(level, 0) /\ LE(level, 6)

\* if (level >= 1 && level <= 6) in the onChange of the default level
onChangeValid(level) == GE(level, 1) /\ LE(level, 6)

(***************************************************************************)
(* Initial states                                                          *)
(***************************************************************************)
InitWith(texts, views) ==
    /\ variant \in {1, 2}
    /\ loaded = FALSE
    /\ data \in {NoData} \cup StoredData(variant)
    /\ settings = NoData
    /\ tabOpen = FALSE
    /\ toggleValue = FALSE
    /\ icons = 0
    /\ view \in views
    /\ content \in texts
    /\ modal = ClosedModal
    /\ events = <<>>
    /\ clipboard = ""
    /\ op = Op("none", <<>>, FALSE)
    /\ first = NoFirst

Init == InitWith(Docs, BOOLEAN)

(***************************************************************************)
(* Plugin lifecycle and settings tab                                       *)
(***************************************************************************)
\* new HeaderLevelModal(app, callback, parseInt(settings.defaultLevel)); v is
\* the view the callback of variant 2 closes over
newModal(v) ==
    [open |-> TRUE, defaultHeaderLevel |-> parseInt(settings.defaultLevel),
     view |-> v]

\* onload() adding the icon whatever showRibbonIcon says
OnloadAlwaysIcon ==
    /\ ~loaded
    /\ loaded' = TRUE
    /\ settings' = assign(DEFAULT_SETTINGS, data)
    /\ icons' = IF variant = 1 THEN icons + 1 ELSE icons
    /\ events' = <<>>
    /\ op' = Op("onload", <<>>, view)
    /\ UNCHANGED <<variant, data, tabOpen, toggleValue, view, content, modal,
                   clipboard, first>>

\* onload(): loadSettings, then the ribbon icon (variant 1: only when
\* showRibbonIcon, with id header-counter-icon; variant 2: always, without id)
Onload ==
    /\ ~loaded
    /\ loaded' = TRUE
    /\ settings' = assign(DEFAULT_SETTINGS, data)
    /\ icons' = IF variant = 1 /\ settings'.showRibbonIcon THEN icons + 1 ELSE icons
    /\ events' = <<>>
    /\ op' = Op("onload", <<>>, view)
    /\ UNCHANGED <<variant, data, tabOpen, toggleValue, view, content, modal,
                   clipboard, first>>

\* display(): the settings tab is (re)built from the settings
Display ==
    /\ loaded /\ ~tabOpen /\ ~modal.open
    /\ tabOpen' = TRUE
    /\ toggleValue' = IF variant = 1 THEN settings.showRibbonIcon ELSE FALSE
    /\ events' = <<>>
    /\ op' = Op("display", <<>>, view)
    /\ UNCHANGED <<variant, loaded, data, settings, icons, view, content, modal,
                   clipboard, first>>

\* the user leaves the settings tab
HideTab ==
    /\ tabOpen
    /\ tabOpen' = FALSE
    /\ toggleValue' = FALSE
    /\ events' = <<>>
    /\ op' = Op("hide", <<>>, view)
    /\ UNCHANGED <<variant, loaded, data, settings, icons, view, content, modal,
                   clipboard, first>>

\* onChange of the "Default header level" text field
DefaultLevelOnChange(value) ==
    /\ tabOpen
    /\ LET level == parseInt(value)
       IN IF onChangeValid(level)
          THEN /\ settings' = [settings EXCEPT !.defaultLevel = toString(level)]
               /\ data' = settings'
               /\ events' = <<SaveData>>
          ELSE /\ events' = <<InvalidSettingNotice>>
               /\ UNCHANGED <<settings, data>>
    /\ op' = Op("defaultLevel.onChange", value, view)
    /\ UNCHANGED <<variant, loaded, tabOpen, toggleValue, icons, view, content,
                   modal, clipboard, first>>

\* onChange of the "Show icon in sidebar" toggle (variant 1): a click flips
\* the toggle, whose value display() had set from the settings
ToggleOnChange ==
    /\ tabOpen /\ variant = 1
    /\ LET value == ~toggleValue
       IN /\ settings' = [settings EXCEPT !.showRibbonIcon = value]
          /\ data' = settings'
          /\ toggleValue' = settings'.showRibbonIcon
          /\ icons' = IF settings'.showRibbonIcon THEN icons + 1
                      ELSE IF icons > 0 THEN icons - 1 ELSE 0
    /\ events' = <<SaveData>>
    /\ op' = Op("showRibbonIcon.onChange", <<>>, view)
    /\ UNCHANGED <<variant, loaded, tabOpen, view, content, modal, clipboard,
                   first>>

(***************************************************************************)
(* Counting                                                                *)
(***************************************************************************)
\* click on the ribbon icon: the level prompt opens
RibbonClick ==
    /\ loaded /\ ~tabOpen /\ ~modal.open
    /\ variant = 1 => icons > 0
    /\ modal' = newModal(IF variant = 2 THEN view ELSE FALSE)
    /\ events' = <<>>
    /\ op' = Op("ribbon", <<>>, view)
    /\ UNCHANGED <<variant, loaded, data, settings, tabOpen, toggleValue, icons,
                   view, content, clipboard, first>>

\* the "Count headers" command: variant 2 offers it only with a Markdown view
CountCommand ==
    /\ loaded /\ ~tabOpen /\ ~modal.open
    /\ variant = 2 => view
    /\ modal' = newModal(IF variant = 2 THEN view ELSE FALSE)
    /\ events' = <<>>
    /\ op' = Op("count-headers", <<>>, view)
    /\ UNCHANGED <<variant, loaded, data, settings, tabOpen, toggleValue, icons,
                   view, content, clipboard, first>>

\* handleCount(input) with input.value = value (button click or Enter)
HandleCount(value) ==
    /\ modal.open
    /\ LET headerLevel == parseInt(value)
       IN IF handleCountValid(headerLevel)
          THEN /\ events' = <<Callback(headerLevel.val)>>
                            \o (IF variant = 1 THEN countHeaders1(headerLevel.val)
                                ELSE countHeaders2(modal.view, headerLevel.val))
               /\ modal' = ClosedModal
               /\ first' = remember(events', headerLevel.val)
          ELSE /\ events' = <<InvalidLevelNotice>>
               /\ UNCHANGED <<modal, first>>
    /\ op' = Op("handleCount", value,
                IF variant = 1 THEN view ELSE modal.view)
    /\ UNCHANGED <<variant, loaded, data, settings, tabOpen, toggleValue, icons,
                   view, content, clipboard>>

\* onClose() confirming the default level before it empties the prompt
CloseModalConfirms ==
    /\ modal.open
    /\ modal' = ClosedModal
    /\ events' = <<Callback(modal.defaultHeaderLevel.val)>>
                 \o (IF variant = 1 THEN countHeaders1(modal.defaultHeaderLevel.val)
                     ELSE countHeaders2(modal.view, modal.defaultHeaderLevel.val))
    /\ op' = Op("dismiss", <<>>, view)
    /\ UNCHANGED <<variant, loaded, data, settings, tabOpen, toggleValue, icons,
                   view, content, clipboard, first>>

\* the prompt is dismissed: onClose() empties the content element
CloseModal ==
    /\ modal.open
    /\ modal' = ClosedModal
    /\ events' = <<>>
    /\ op' = Op("dismiss", <<>>, view)
    /\ UNCHANGED <<variant, loaded, data, settings, tabOpen, toggleValue, icons,
                   view, content, clipboard, first>>

\* the "Compute header summary" command; ok: the clipboard accepts the write
SummaryCommand(ok) ==
    /\ loaded /\ ~tabOpen /\ ~modal.open
    /\ variant = 2 => view
    /\ events' = IF variant = 1 THEN computeHeaderSummary1(ok)
                 ELSE computeHeaderSummary2(view, ok)
    /\ clipboard' = IF events'[Len(events')].type = "writeText" /\ ok
                    THEN events'[Len(events')].text ELSE clipboard
    /\ first' = remember(events', 0)
    /\ op' = Op("header-summary", <<>>, view)
    /\ UNCHANGED <<variant, loaded, data, settings, tabOpen, toggleValue, icons,
                   view, content, modal>>

\* the user moves to or away from a Markdown view (not while a prompt is open)
SetView ==
    /\ ~modal.open
    /\ view' = ~view
    /\ UNCHANGED <<variant, loaded, data, settings, tabOpen, toggleValue, icons,
                   content, modal, events, clipboard, op, first>>

(***************************************************************************)
(* Specifications                                                          *)
(***************************************************************************)
Next ==
    \/ Onload
    \/ Display
    \/ HideTab
    \/ \E value \in FewInputs : DefaultLevelOnChange(value)
    \/ ToggleOnChange
    \/ RibbonClick
    \/ CountCommand
    \/ \E value \in FewInputs : HandleCount(value)
    \/ CloseModal
    \/ \E ok \in BOOLEAN : SummaryCommand(ok)
    \/ SetView

Spec == Init /\ [][Next]_vars

\* the scanner on every short document
InitScan == InitWith(Texts, {TRUE}) /\ data = NoData

NextScan ==
    \/ Onload
    \/ CountCommand
    \/ \E value \in LevelStrings : HandleCount(value)
    \/ SummaryCommand(TRUE)

SpecScan == InitScan /\ [][NextScan]_vars

\* the settings tab on every short input of its text field
InitSetting == InitWith({<<"#", " ", "A", "\n">>}, {TRUE})

NextSetting ==
    \/ Onload
    \/ Display
    \/ HideTab
    \/ \E value \in TextInputs : DefaultLevelOnChange(value)
    \/ ToggleOnChange

SpecSetting == InitSetting /\ [][NextSetting]_vars

\* the level prompt on every short value of its number input (the pre-filled
\* default level among them)
InitPrompt == InitWith({<<"#", " ", "A", "\n">>}, BOOLEAN) /\ data = NoData

NextPrompt ==
    \/ Onload
    \/ RibbonClick
    \/ CountCommand
    \/ \E value \in NumberInputs \cup LevelStrings : HandleCount(value)
    \/ CloseModal

SpecPrompt == InitPrompt /\ [][NextPrompt]_vars


(***************************************************************************)
(* Reference notions used by the properties                                *)
(***************************************************************************)
\* the indices at which a line of text begins
lineStarts(text) ==
    {1} \cup {j + 1 : j \in {i \in 1..Len(text) : text[i] \in LineTerminators}}

\* the number of '#' characters the line beginning at i opens with
leadingHashes(text, i) ==
    CHOOSE n \in 0..Len(text) :
        /\ \A k \in 0..(n - 1) : i + k <= Len(text) /\ text[i + k] = "#"
        /\ ~(i + n <= Len(text) /\ text[i + n] = "#")

\* the lines that open with exactly level '#' and then a white space character
headerLines(text, level) ==
    {i \in lineStarts(text) :
        /\ leadingHashes(text, i) = level
        /\ i + level <= Len(text)
        /\ text[i + level] \in WhiteSpace}

RECURSIVE trimEnd(_)
trimEnd(s) ==
    IF s # <<>> /\ s[Len(s)] \in WhiteSpace THEN trimEnd(SubSeq(s, 1, Len(s) - 1))
    ELSE s

\* s, read as a decimal numeral (white space around it, an optional sign,
\* digits with at most one decimal point), denotes a number in [1, 6]
denotesLevel(s) ==
    LET t == trimEnd(SubSeq(s, skipWhiteSpace(s, 1), Len(s)))
        signed == t # <<>> /\ t[1] \in {"-", "+"}
        b == IF signed THEN Tail(t) ELSE t
        dots == {i \in 1..Len(b) : b[i] = "."}
        point == IF dots = {} THEN Len(b) + 1 ELSE CHOOSE i \in dots : TRUE
        whole == parseDigits(b, 1, 0)
    IN /\ \A i \in 1..Len(b) : b[i] \in DigitChars \cup {"."}
       /\ Cardinality(dots) <= 1
       /\ Len(b) > Cardinality(dots)
       /\ ~(signed /\ t[1] = "-")
       /\ \/ whole \in 1..5
          \/ whole = 6 /\ \A i \in (point + 1)..Len(b) : b[i] = "0"

\* the effects of the last handler other than the callback invocation
effects == SelectSeq(events, LAMBDA e : e.type # "callback")

\* the last handler was a confirmed count whose notice reports a count
countReported ==
    /\ op.name = "handleCount"
    /\ Len(events) = 2
    /\ events[2].type = "Notice"
    /\ events[2] # NotMarkdownNotice

\* the summary object with the given key for each level, counts as countHeaders
summaryWithKeys(key(_)) ==
    [k \in 1..6 |-> <<key(k), matchCount(content, k)>>]

levelKey(k) == ToString(k)

hKey(k) == "h" \o ToString(k)

(***************************************************************************)
(* Properties                                                              *)
(***************************************************************************)
\* C1: the count that countHeaders reports for level L is the number of lines
\* of the document that open with exactly L '#' characters followed by a
\* white space character (the character that ends the line counts as one).
C1_CountIsHeaderLines ==
    countReported =>
        LET L == events[1].headerLevel
        IN events[2] = CountNotice(L, Cardinality(headerLines(content, L)))

C1_Witness ==
    /\ countReported
    /\ content = <<"#", "#", "#", "#", "#", "#", " ", "F", "\n",
                   "#", "#", "#", "#", "#", " ", "G">>
    /\ events[2] = CountNotice(5, 1)

\* C2 as stated: the summary has the keys 1..6 in ascending order, the value
\* at key k being the count of level k.
C2_KeysAreLevels ==
    (op.name = "header-summary" /\ op.view) =>
        /\ Len(events) = 3
        /\ events[3].text = JSONstringify(summaryWithKeys(levelKey))

\* C2 amended: the summary has exactly the six keys h1..h6 in ascending order,
\* each present also when its count is zero, the value at hk being the count
\* countHeaders reports for level k.
C2_KeysAreHLevels ==
    (op.name = "header-summary" /\ op.view) =>
        /\ Len(events) = 3
        /\ events[3].text = JSONstringify(summaryWithKeys(hKey))

C2_Witness ==
    /\ op.name = "header-summary"
    /\ Len(events) = 3
    /\ events[3].text = "{\"h1\":1,\"h2\":2,\"h3\":0,\"h4\":0,\"h5\":0,\"h6\":0}"

\* C3: a change of the default-level field to a value that does not denote a
\* number in [1,6] is rejected: a notice is shown, nothing is saved, and
\* settings.defaultLevel and the stored data stay as they were.
C3_OutOfRangeRejected ==
    [][(op'.name = "defaultLevel.onChange" /\ ~denotesLevel(op'.value)) =>
          /\ events' = <<InvalidSettingNotice>>
          /\ settings' = settings
          /\ data' = data]_vars

\* C4: the default level that pre-fills the prompt, parseInt of
\* settings.defaultLevel, is an integer in [1,6], also as captured by an open
\* prompt, and it is 4 as long as nothing was ever stored.
C4_DefaultLevelInRange ==
    loaded =>
        /\ ~parseInt(settings.defaultLevel).nan
        /\ parseInt(settings.defaultLevel).val \in 1..6
        /\ modal.open => modal.defaultHeaderLevel = parseInt(settings.defaultLevel)
        /\ DOMAIN data = {} => parseInt(settings.defaultLevel) = Num(4)

C4_Witness ==
    /\ modal.open
    /\ modal.defaultHeaderLevel = Num(6)
    /\ data.defaultLevel = <<"6">>

\* C5: the prompt invokes its callback only with an integer in [1,6], and a
\* value that does not denote a number in [1,6] gets a notice, no callback,
\* and leaves the prompt open.
C5_PromptValidates ==
    /\ \A i \in 1..Len(events) :
          events[i].type = "callback" => events[i].headerLevel \in 1..6
    /\ (op.name = "handleCount" /\ ~denotesLevel(op.value)) =>
          /\ events = <<InvalidLevelNotice>>
          /\ modal.open

\* C6: a count or a summary that runs without a Markdown view shows the
\* "not a Markdown view" notice and does nothing else: no count notice, no
\* clipboard write, no fault.
C6_NoViewGivesNotice ==
    (/\ op.name \in {"handleCount", "header-summary"}
     /\ ~op.view
     /\ events # <<InvalidLevelNotice>>) =>
        effects = <<NotMarkdownNotice>>

\* C7: dismissing the prompt has no effect: no callback, no notice, no
\* clipboard write, and the settings and the stored data are unchanged.
C7_DismissHasNoEffect ==
    [][(modal.open /\ op'.name = "dismiss" /\ view' = view) =>
          /\ events' = <<>>
          /\ ~modal'.open
          /\ settings' = settings
          /\ data' = data
          /\ clipboard' = clipboard
          /\ first' = first]_vars

C7_Witness ==
    /\ op.name = "dismiss"
    /\ ~modal.open
    /\ DOMAIN data # {}

\* C8: a count at the level of the first count of the document reports what
\* the first count reported, and a summary writes what the first summary
\* wrote, whatever was done in between.
C8_SameTextSameResult ==
    /\ (countReported /\ first.kind = "count"
            /\ events[1].headerLevel = first.level) =>
          events[2].message = first.message
    /\ (op.name = "header-summary" /\ Len(events) = 3
            /\ first.kind = "summary") =>
          events[3].text = first.message

C8_Witness ==
    /\ countReported
    /\ first.kind = "count"
    /\ events[1].headerLevel = first.level
    /\ clipboard # ""
    /\ settings.defaultLevel # <<"4">>
    /\ first.message = "Number of level 1 headers: 1"

\* C9: in variant 1, once loaded, there is exactly one icon with id
\* header-counter-icon when settings.showRibbonIcon is true and none when it
\* is false.
C9_IconIffSetting ==
    (loaded /\ variant = 1) =>
        icons = IF settings.showRibbonIcon THEN 1 ELSE 0

C9_Witness ==
    /\ variant = 1
    /\ op.name = "showRibbonIcon.onChange"
    /\ settings.showRibbonIcon
    /\ icons = 1

\* C10: with a Markdown view, the summary shows the summary notice, then the
\* "Copied to clipboard!" notice, then writes once to the clipboard the JSON
\* string of the summary notice; whether or not the write succeeds, the
\* notices are the same and the settings and the stored data are unchanged.
C10_SummaryEffects ==
    [][(op'.name = "header-summary" /\ view /\ view' = view) =>
          /\ Len(events') = 3
          /\ events'[1] = Notice(SummaryPrefix \o events'[3].text)
          /\ events'[2] = CopiedNotice
          /\ events'[3].type = "writeText"
          /\ clipboard' = IF events'[3].ok THEN events'[3].text ELSE clipboard
          /\ settings' = settings
          /\ data' = data]_vars

C10_Witness ==
    /\ op.name = "header-summary"
    /\ op.view
    /\ Len(events) = 3
    /\ ~events[3].ok
    /\ clipboard = ""
    /\ events[1].message =
          SummaryPrefix \o "{\"h1\":1,\"h2\":2,\"h3\":0,\"h4\":0,\"h5\":0,\"h6\":0}"

====
